---- MODULE Spec2Model ----
(***************************************************************************)
(* MAVConn TCP transport (src/src/mavconn/mavconn_tcp.cpp): the standalone *)
(* client channel MAVConnTCPClient, and the server channel                 *)
(* MAVConnTCPServer with the client channels it accepts.                   *)
(*                                                                         *)
(* Threads: the application threads AppThreads call the public operations  *)
(* (send_bytes, close); the thread "io" runs io_service::run of the        *)
(* top-level channel and executes the posted handlers and the completion   *)
(* handlers of the asynchronous socket operations.  The operating system   *)
(* (the socket) is the environment: it completes outstanding reads, writes *)
(* and accepts.                                                            *)
(***************************************************************************)
EXTENDS Integers, Sequences, FiniteSets, TLC

\* ------------------------------------------------------------------ bounds
MaxSends == 2       \* send_bytes calls of one run
MaxLen == 2         \* longest payload of a send_bytes call
MaxWire == 5        \* bytes of a socket's outgoing stream that are recorded
PosCap == 4         \* largest cursor value recorded (see bump)
MaxCloses == 2      \* close() calls made by application threads
MaxConn == 3        \* connection attempts made by peers
Capacity == 2       \* channels left when the server has been constructed
MaxFanout == 1      \* fan-out send_bytes calls on the server

AppThreads == {"t1", "t2"}

\* The application threads that call the server's operations.  Each of these
\* operations holds the server's mutex from its first statement to its
\* return, so the calls of different threads never overlap: one calling
\* thread shows every interleaving with the io thread.
ServerThreads == {"t1"}

Ids == 0 .. MaxConn             \* 0: the standalone client; 1..: accepted

\* ----------------------------------------------------------------- helpers
Min(a, b) == IF a < b THEN a ELSE b

Take(s, n) == SubSeq(s, 1, Min(n, Len(s)))

IsPrefix(s, t) == Len(s) <= Len(t) /\ SubSeq(t, 1, Len(s)) = s

\* The bytes of the payload of send call k: all different, so that a lost,
\* repeated or reordered byte shows in the stream.
Payload(k, len) == [i \in 1 .. len |-> 10 * k + i]

\* n indeterminate bytes: what a read of freed or out-of-range memory
\* yields.  The byte 0 is no byte of any payload.
GarbageBytes(n) == [i \in 1 .. n |-> 0]

\* MsgBuffer: payload (identified by id, of length len) and cursor pos.
MsgBuffer(id, len) == [id |-> id, len |-> len, pos |-> 0]

nbytes(buf) == buf.len - buf.pos

\* pos += bytes_transferred.  A cursor beyond the payload end is recorded up
\* to PosCap: nbytes() is negative for every such cursor, whatever its value.
bump(buf, n) == [buf EXCEPT !.pos = Min(@ + n, PosCap)]

\* An asynchronous write: buffer(buf->dpos(), buf->nbytes()).
WriteOp(buf) == [id |-> buf.id, off |-> buf.pos, len |-> nbytes(buf)]

\* A handler of the io_service: h its function, c the channel it is bound
\* to, err/n the completion's error and bytes_transferred, id the buffer the
\* completed write was issued for.
H(h, c, err, n, id) == [h |-> h, c |-> c, err |-> err, n |-> n, id |-> id]

NoH == H("none", 0, FALSE, 0, 0)

\* ------------------------------------------------------------ the messages
\* The system and component ids that messages and callers use.
SenderIds == 1 .. 2

RECURSIVE Sum(_)
Sum(s) == IF s = <<>> THEN 0 ELSE Head(s) + Sum(Tail(s))

\* The checksum of a message: a function of its header fields and payload.
Crc(m) ==
    (m.len + 2 * m.seq + 3 * m.sysid + 5 * m.compid + Sum(m.payload)) % 256

\* mavlink_finalize_message_chan(&msg, sysid, compid, channel, length): the
\* message gets the length, the sender ids, the channel's next sequence
\* number and the checksum of the result.
Finalize(m, sysid, compid, seqno, length) ==
    LET h == [m EXCEPT !.len = length, !.sysid = sysid, !.compid = compid,
                       !.seq = seqno]
    IN [h EXCEPT !.checksum = Crc(h)]

\* A message as its sender finalized it.
Message(sysid, compid, seqno, payload) ==
    Finalize([len |-> 0, seq |-> 0, sysid |-> 0, compid |-> 0,
              payload |-> payload, checksum |-> 0],
             sysid, compid, seqno, Len(payload))

\* MsgBuffer(const mavlink_message_t *): the bytes of the message on the
\* wire: start sign, header, payload, checksum.
Serialize(m) ==
    <<254, m.len, m.seq, m.sysid, m.compid>> \o m.payload \o <<m.checksum>>

\* A test that asks for both ids of the message to differ from the call's.
NeedsFinalizeBoth(m, sysid, compid) == m.sysid # sysid /\ m.compid # compid

\* send_message: the ids of the message are not the ids of the call.
NeedsFinalize(m, sysid, compid) == m.sysid # sysid \/ m.compid # compid

\* A send_message call: message, sysid, compid its arguments; seq0 the
\* channel's sequence number before the call, tx_seq the one after it; buf
\* the bytes of the buffer the call enqueued; done: the call returned.
Call(m, sysid, compid, seqno) ==
    [message |-> m, sysid |-> sysid, compid |-> compid, seq0 |-> seqno,
     tx_seq |-> seqno, buf |-> <<>>, done |-> FALSE]

NoCall == Call(Message(1, 1, 0, <<>>), 1, 1, 0)

VARIABLES
    chan,           \* [Ids -> client channel object]
    ioq,            \* handlers posted to the top-level io_service, in order
    io_cur,         \* the handler the io thread has taken and is executing
    io_state,       \* "running", "exited" (run() returned)
    io_stopped,     \* io_service.stop() was called on the top-level service
    pc,             \* [AppThreads -> where the thread is]
    arg,            \* [AppThreads -> the buffer of the call in progress]
    msg,            \* the send_message call: its inputs and its result
    wire,           \* [Ids -> bytes handed to the socket, first MaxWire]
    sent,           \* [Ids -> concatenation of the payloads enqueued]
    written,        \* [buffer id -> bytes of it handed to the socket]
    nsends,         \* send_bytes calls made
    ncloses,        \* close() calls made by application threads
    aborted,        \* the process was terminated (std::terminate, abort)
    srv,            \* the server channel object
    accept_op,      \* an async_accept is outstanding
    nconn,          \* connection attempts so far
    it,             \* the registry iterator of the application's for_each
    nfanout,        \* fan-out sends made
    rejected        \* connections rejected for lack of capacity

\* The arguments of the application's calls.
avars == <<arg, msg>>
cvars == <<chan, ioq, io_cur, io_state, io_stopped, pc, avars, wire, sent,
           written, nsends, ncloses, aborted>>
svars == <<srv, accept_op, nconn, it, nfanout, rejected>>
vars == <<cvars, svars>>

\* ------------------------------------------------------- the client object
\* A client channel object.  st: "none" (not constructed), "live", "freed"
\* (deleted).  open: socket.is_open().  lock: owner of the recursive mutex.
\* thr: io_thread.joinable().  posted: handlers posted to the object's own
\* io_service when no thread runs it (an accepted client).  subs: the
\* server's client_closed slot is connected to port_closed.
NoClient ==
    [st |-> "none", open |-> FALSE, tx_q |-> <<>>, tx_in_progress |-> FALSE,
     emits |-> 0, lock |-> "free", thr |-> FALSE, rd_op |-> FALSE,
     wr_ops |-> <<>>, posted |-> 0, subs |-> FALSE]

\* MAVConnTCPClient(system_id, component_id, host, port): tx_in_progress is
\* false, the socket is connected, the io thread is started.
StandaloneClient ==
    [NoClient EXCEPT !.st = "live", !.open = TRUE, !.thr = TRUE]

\* MAVConnTCPClient(system_id, component_id, server_io, server_channel,
\* client_sock, client_ep): wraps the accepted socket; no thread, no work
\* object; the server's client_closed slot is connected right after.
\* tx_in_progress is left uninitialized: no handler of such a client ever
\* reads it, because do_send is only posted to the object's own io_service.
AcceptedClient ==
    [NoClient EXCEPT !.st = "live", !.open = TRUE, !.subs = TRUE]

\* The server channel object.  acceptor_open: acceptor.is_open().
\* client_list: the registry, in insertion order.  free: channes_available().
NoServer ==
    [exists |-> FALSE, acceptor_open |-> FALSE, client_list |-> <<>>,
     emits |-> 0, lock |-> "free", thr |-> FALSE, free |-> 0]

\* MAVConnTCPServer(system_id, component_id, host, port): the acceptor
\* listens, do_accept is posted, the io thread is started.
NewServer ==
    [NoServer EXCEPT !.exists = TRUE, !.acceptor_open = TRUE, !.thr = TRUE,
                     !.free = Capacity]

\* channes_available(): the channels of the process that are not in use.
channes_available(s) == s.free

\* The construction of a channel object takes a channel of the process, its
\* destruction gives the channel back (n objects).
channel_taken(s) == [s EXCEPT !.free = @ - 1]

channel_freed(s, n) == [s EXCEPT !.free = @ + n]

LockAvail(c, th) == chan[c].lock \in {"free", th}

InList(c) == \E i \in 1 .. Len(srv.client_list) : srv.client_list[i] = c

\* client_list.remove(instp)
Remove(list, c) == SelectSeq(list, LAMBDA x : x # c)

\* The node after c's node in the registry; 0: end().
NextNode(c) ==
    LET i == CHOOSE j \in 1 .. Len(srv.client_list) : srv.client_list[j] = c
    IN IF i < Len(srv.client_list) THEN srv.client_list[i + 1] ELSE 0

FirstNode == IF srv.client_list = <<>> THEN 0 ELSE Head(srv.client_list)

\* do_send(check_tx_state) on a client object: the object afterwards.
do_send(cl, check_tx_state) ==
    IF check_tx_state /\ cl.tx_in_progress THEN cl
    ELSE IF cl.tx_q = <<>> THEN cl
    ELSE [cl EXCEPT !.wr_ops = Append(@, WriteOp(Head(cl.tx_q)))]

\* async_send_end without error: the object afterwards.
async_send_end(cl, bytes_transferred) ==
    IF cl.tx_q = <<>> THEN cl
    ELSE LET buf == bump(Head(cl.tx_q), bytes_transferred)
             q == IF nbytes(buf) = 0 THEN Tail(cl.tx_q)
                  ELSE <<buf>> \o Tail(cl.tx_q)
             cl1 == [cl EXCEPT !.tx_q = q]
         IN IF q # <<>> THEN do_send(cl1, FALSE) ELSE cl1

\* A close() that emits port_closed before it closes the socket: a
\* subscriber that calls close() again finds the socket still open.
RECURSIVE close_emit_first(_, _)
close_emit_first(cl, reenter) ==
    IF ~cl.open THEN cl
    ELSE LET emitted == [cl EXCEPT !.emits = @ + 1]
             inner == IF reenter > 0 THEN close_emit_first(emitted, reenter - 1)
                      ELSE emitted
         IN [inner EXCEPT !.open = FALSE, !.tx_q = <<>>]

\* close() up to and including the emission of port_closed; reenter: how
\* many times a port_closed subscriber calls close() again from its slot.
RECURSIVE close(_, _)
close(cl, reenter) ==
    IF ~cl.open THEN cl
    ELSE LET shut == [cl EXCEPT !.open = FALSE, !.tx_q = <<>>]
             emitted == [shut EXCEPT !.emits = @ + 1]
         IN IF reenter > 0 THEN close(emitted, reenter - 1) ELSE emitted

\* ------------------------------------------------------------------- init
InitClient ==
    /\ chan = [c \in Ids |-> IF c = 0 THEN StandaloneClient ELSE NoClient]
    /\ ioq = <<H("do_recv", 0, FALSE, 0, 0)>>
    /\ io_cur = NoH
    /\ io_state = "running"
    /\ io_stopped = FALSE
    /\ pc = [t \in AppThreads |-> "idle"]
    /\ arg = [t \in AppThreads |-> MsgBuffer(0, 0)]
    /\ msg = NoCall
    /\ wire = [c \in Ids |-> <<>>]
    /\ sent = [c \in Ids |-> <<>>]
    /\ written = [k \in 1 .. MaxSends |-> 0]
    /\ nsends = 0
    /\ ncloses = 0
    /\ aborted = FALSE
    /\ srv = NoServer
    /\ accept_op = FALSE
    /\ nconn = 0
    /\ it = 0
    /\ nfanout = 0
    /\ rejected = 0

\* ------------------------------------------ application: standalone client
\* send_bytes, up to the lock: the caller found the channel open (the
\* assertion passes) and the buffer is allocated.
send_bytes_begin(t, len) ==
    /\ ~aborted /\ ~srv.exists
    /\ pc[t] = "idle"
    /\ chan[0].open
    /\ nsends < MaxSends
    /\ nsends' = nsends + 1
    /\ arg' = [arg EXCEPT ![t] = MsgBuffer(nsends + 1, len)]
    /\ pc' = [pc EXCEPT ![t] = "send"]
    /\ UNCHANGED <<chan, ioq, io_cur, io_state, io_stopped, msg, wire, sent,
                   written, ncloses, aborted, svars>>

\* send_bytes under the lock: push_back and post do_send(true).
send_bytes_push(t) ==
    /\ ~aborted /\ ~srv.exists
    /\ pc[t] = "send"
    /\ LockAvail(0, t)
    /\ chan' = [chan EXCEPT ![0].tx_q = Append(@, arg[t])]
    /\ ioq' = Append(ioq, H("do_send", 0, FALSE, 0, 0))
    /\ sent' = [sent EXCEPT ![0] = @ \o Payload(arg[t].id, arg[t].len)]
    /\ pc' = [pc EXCEPT ![t] = "idle"]
    /\ UNCHANGED <<io_cur, io_state, io_stopped, avars, wire, written, nsends,
                   ncloses, aborted, svars>>

\* send_message: the assertion passes, the buffer is built from the message
\* (finalized again for the ids of the call when they are not the message's)
\* and enqueued, do_send(true) is posted.
send_message(t) ==
    /\ ~aborted /\ ~srv.exists
    /\ pc[t] = "idle"
    /\ chan[0].open
    /\ ~msg.done /\ nsends < MaxSends
    /\ LockAvail(0, t)
    /\ LET m == msg.message
           again == NeedsFinalize(m, msg.sysid, msg.compid)
           out == IF again
                  THEN Finalize(m, msg.sysid, msg.compid, msg.tx_seq, m.len)
                  ELSE m
           bytes == Serialize(out)
       IN /\ msg' = [msg EXCEPT !.buf = bytes, !.done = TRUE,
                                !.tx_seq = IF again THEN (@ + 1) % 256 ELSE @]
          /\ chan' = [chan EXCEPT ![0].tx_q =
                          Append(@, MsgBuffer(nsends + 1, Len(bytes)))]
          /\ sent' = [sent EXCEPT ![0] = @ \o bytes]
    /\ nsends' = nsends + 1
    /\ ioq' = Append(ioq, H("do_send", 0, FALSE, 0, 0))
    /\ UNCHANGED <<io_cur, io_state, io_stopped, pc, arg, wire, written,
                   ncloses, aborted, svars>>

\* close() called by an application thread, up to the join.
client_close(t, reenter) ==
    /\ ~aborted /\ ~srv.exists
    /\ pc[t] = "idle"
    /\ ncloses < MaxCloses
    /\ LockAvail(0, t)
    /\ ncloses' = ncloses + 1
    /\ IF ~chan[0].open
       THEN UNCHANGED <<chan, io_stopped, pc>>
       ELSE /\ io_stopped' = TRUE
            /\ IF chan[0].thr
               THEN /\ chan' = [chan EXCEPT ![0] =
                                   [close(chan[0], reenter) EXCEPT !.lock = t]]
                    /\ pc' = [pc EXCEPT ![t] = "joining"]
               ELSE /\ chan' = [chan EXCEPT ![0] = close(chan[0], reenter)]
                    /\ UNCHANGED pc
    /\ UNCHANGED <<ioq, io_cur, io_state, avars, wire, sent, written, nsends,
                   aborted, svars>>

\* io_thread.join() returns when run() has returned; close() then returns
\* and releases the lock.
client_close_join(t) ==
    /\ ~aborted /\ ~srv.exists
    /\ pc[t] = "joining"
    /\ io_state = "exited"
    /\ chan' = [chan EXCEPT ![0].thr = FALSE, ![0].lock = "free"]
    /\ pc' = [pc EXCEPT ![t] = "idle"]
    /\ UNCHANGED <<ioq, io_cur, io_state, io_stopped, avars, wire, sent,
                   written, nsends, ncloses, aborted, svars>>

\* ------------------------------------------------------------ the io thread
\* io_service::run takes the next handler.
io_dispatch ==
    /\ ~aborted
    /\ io_state = "running" /\ io_cur = NoH /\ ~io_stopped
    /\ ioq # <<>>
    /\ io_cur' = Head(ioq)
    /\ ioq' = Tail(ioq)
    /\ UNCHANGED <<chan, io_state, io_stopped, pc, avars, wire, sent, written,
                   nsends, ncloses, aborted, svars>>

\* io_service::run returns: the service was stopped.
io_exit ==
    /\ ~aborted
    /\ io_state = "running" /\ io_cur = NoH /\ io_stopped
    /\ io_state' = "exited"
    /\ UNCHANGED <<chan, ioq, io_cur, io_stopped, pc, avars, wire, sent,
                   written, nsends, ncloses, aborted, svars>>

\* ~MAVConnTCPClient (close(), a no-op on a closed socket) and the release
\* of the object's memory.
Deleted(cl) == [cl EXCEPT !.st = "freed", !.subs = FALSE]

\* An error handler that starts the receive again instead of calling close().
client_retry_io(c) ==
    /\ chan' = [chan EXCEPT ![c].rd_op = TRUE]
    /\ io_cur' = NoH
    /\ UNCHANGED <<io_stopped, aborted, srv>>

\* close() called by a handler of client c, on the io thread.
\*  - A standalone client: its io_service is the one the io thread runs; the
\*    join of the io thread by itself throws (resource_deadlock_would_occur),
\*    the exception leaves run() and the thread function: std::terminate.
\*  - An accepted client: close() takes the client's mutex, closes the
\*    socket and clears the queue; the emission of port_closed and what
\*    follows it are the next steps of the io thread (run_port_closed,
\*    run_on_freed), so that other threads see the closed client that is
\*    still registered.
client_close_io(c) ==
    /\ LockAvail(c, "io")
    /\ IF ~chan[c].open
       THEN /\ io_cur' = NoH
            /\ UNCHANGED <<chan, io_stopped, aborted>>
       ELSE IF chan[c].subs
       THEN /\ chan' = [chan EXCEPT ![c].open = FALSE, ![c].tx_q = <<>>,
                                    ![c].lock = "io"]
            /\ io_cur' = [io_cur EXCEPT !.h = "port_closed"]
            /\ UNCHANGED <<io_stopped, aborted>>
       ELSE LET cl == close(chan[c], 0) IN
            /\ chan' = [chan EXCEPT ![c] = cl]
            /\ io_stopped' = (io_stopped \/ c = 0)
            /\ aborted' = cl.thr
            /\ io_cur' = NoH
    /\ UNCHANGED srv

\* close() of an accepted client, continued: /* emit */ port_closed() runs
\* the server's client_closed slot, which removes the client from the
\* registry (without the server's mutex) and deletes it.  close() has not
\* returned yet: its rest runs next, in the deleted object.
run_port_closed ==
    /\ ~aborted
    /\ io_cur.h = "port_closed"
    /\ chan' = [chan EXCEPT ![io_cur.c] = Deleted([@ EXCEPT !.emits = @ + 1])]
    /\ srv' = channel_freed(
                 [srv EXCEPT !.client_list = Remove(@, io_cur.c)], 1)
    /\ io_cur' = [io_cur EXCEPT !.h = "close_rest"]
    /\ UNCHANGED <<ioq, io_state, io_stopped, pc, avars, wire, sent, written,
                   nsends, ncloses, aborted, accept_op, nconn, it, nfanout,
                   rejected>>

run_do_recv ==
    /\ ~aborted
    /\ io_cur.h = "do_recv" /\ chan[io_cur.c].st = "live"
    /\ chan' = [chan EXCEPT ![io_cur.c].rd_op = TRUE]
    /\ io_cur' = NoH
    /\ UNCHANGED <<ioq, io_state, io_stopped, pc, avars, wire, sent, written,
                   nsends, ncloses, aborted, svars>>

run_async_receive_end ==
    /\ ~aborted
    /\ io_cur.h = "recv_end" /\ chan[io_cur.c].st = "live"
    /\ IF io_cur.err
       THEN client_close_io(io_cur.c)
       ELSE /\ chan' = [chan EXCEPT ![io_cur.c].rd_op = TRUE]
            /\ io_cur' = NoH
            /\ UNCHANGED <<io_stopped, aborted, srv>>
    /\ UNCHANGED <<ioq, io_state, pc, avars, wire, sent, written, nsends,
                   ncloses, accept_op, nconn, it, nfanout, rejected>>

run_do_send ==
    /\ ~aborted
    /\ io_cur.h = "do_send" /\ chan[io_cur.c].st = "live"
    /\ chan[io_cur.c].tx_in_progress \/ LockAvail(io_cur.c, "io")
    /\ chan' = [chan EXCEPT ![io_cur.c] = do_send(@, TRUE)]
    /\ io_cur' = NoH
    /\ UNCHANGED <<ioq, io_state, io_stopped, pc, avars, wire, sent, written,
                   nsends, ncloses, aborted, svars>>

run_async_send_end ==
    /\ ~aborted
    /\ io_cur.h = "send_end" /\ chan[io_cur.c].st = "live"
    /\ IF io_cur.err
       THEN client_close_io(io_cur.c)
       ELSE /\ LockAvail(io_cur.c, "io")
            /\ chan' = [chan EXCEPT ![io_cur.c] = async_send_end(@, io_cur.n)]
            /\ io_cur' = NoH
            /\ UNCHANGED <<io_stopped, aborted, srv>>
    /\ UNCHANGED <<ioq, io_state, pc, avars, wire, sent, written, nsends,
                   ncloses, accept_op, nconn, it, nfanout, rejected>>

\* Code bound to a client object that has been deleted meanwhile runs in
\* freed memory: a handler of that object, or the rest of its close() after
\* the emission of port_closed (io_thread.joinable(), the unlock of the
\* mutex).  The process crashes, or the code finds the object's old content
\* (a closed socket, a thread that is not joinable) and has no effect.
run_on_freed(crash) ==
    /\ ~aborted
    /\ io_cur.h \in {"do_recv", "recv_end", "do_send", "send_end", "close_rest"}
    /\ chan[io_cur.c].st = "freed"
    /\ aborted' = crash
    /\ io_cur' = NoH
    /\ UNCHANGED <<chan, ioq, io_state, io_stopped, pc, avars, wire, sent,
                   written, nsends, ncloses, svars>>

\* ------------------------------------------------- the io thread: the server
\* io_service::run returns: the server's io_service has no work object, so
\* run() also returns when no handler and no asynchronous operation is left.
io_exit_no_work ==
    /\ ~aborted /\ srv.exists
    /\ io_state = "running" /\ io_cur = NoH /\ ~io_stopped
    /\ ioq = <<>> /\ ~accept_op
    /\ \A c \in Ids : ~chan[c].rd_op /\ chan[c].wr_ops = <<>>
    /\ io_state' = "exited"
    /\ UNCHANGED <<chan, ioq, io_cur, io_stopped, pc, avars, wire, sent,
                   written, nsends, ncloses, aborted, svars>>

run_do_accept ==
    /\ ~aborted
    /\ io_cur.h = "do_accept"
    /\ accept_op' = TRUE
    /\ io_cur' = NoH
    /\ UNCHANGED <<chan, ioq, io_state, io_stopped, pc, avars, wire, sent,
                   written, nsends, ncloses, aborted, srv, nconn, it, nfanout,
                   rejected>>

\* The clients of the registry closed and deleted, their port_closed slots
\* disconnected first.
CloseAll(ch, list) ==
    [c \in Ids |->
        IF (\E i \in 1 .. Len(list) : list[i] = c) /\ ch[c].st = "live"
        THEN Deleted(close([ch[c] EXCEPT !.subs = FALSE], 0))
        ELSE ch[c]]

\* MAVConnTCPServer::close() from the clear of the registry to the emission
\* of port_closed; reenter: how many times a subscriber calls close() again.
RECURSIVE server_close(_, _)
server_close(s, reenter) ==
    IF ~s.acceptor_open THEN s
    ELSE LET shut == [s EXCEPT !.client_list = <<>>, !.acceptor_open = FALSE]
             emitted == [shut EXCEPT !.emits = @ + 1]
         IN IF reenter > 0 THEN server_close(emitted, reenter - 1)
            ELSE emitted

\* The rest of async_accept_end: the client is constructed (do_recv posted to
\* the server's io_service), its signals connected, it is registered, and
\* do_accept() starts the next accept.
accept_register(c) ==
    /\ chan' = [chan EXCEPT ![c] = AcceptedClient]
    /\ srv' = channel_taken([srv EXCEPT !.client_list = Append(@, c)])
    /\ ioq' = Append(ioq, H("do_recv", c, FALSE, 0, 0))
    /\ accept_op' = TRUE
    /\ UNCHANGED <<io_stopped, aborted, rejected>>

\* close() of the server called by async_accept_end, on the io thread: the
\* join of the io thread by itself throws: std::terminate.
server_close_io ==
    /\ srv.lock \in {"free", "io"}
    /\ IF ~srv.acceptor_open
       THEN UNCHANGED <<chan, srv, io_stopped, aborted>>
       ELSE /\ chan' = CloseAll(chan, srv.client_list)
            /\ srv' = channel_freed(server_close(srv, 0),
                                     Len(srv.client_list))
            /\ io_stopped' = TRUE
            /\ aborted' = srv.thr
    /\ UNCHANGED <<ioq, accept_op, rejected>>

\* A reject that handles the lack of capacity like an accept error.
accept_reject_fatal == server_close_io

\* The reject of async_accept_end: client_sock.close(); return.
accept_reject ==
    /\ rejected' = rejected + 1
    /\ UNCHANGED <<chan, ioq, io_stopped, aborted, srv, accept_op>>

run_async_accept_end ==
    /\ ~aborted
    /\ io_cur.h = "accept_end"
    /\ IF io_cur.err THEN server_close_io
       ELSE IF channes_available(srv) <= 0 THEN accept_reject
       ELSE accept_register(io_cur.c)
    /\ io_cur' = NoH
    /\ UNCHANGED <<io_state, pc, avars, wire, sent, written, nsends, ncloses,
                   nconn, it, nfanout>>

\* ----------------------------------------------------- application: server
\* MAVConnTCPServer::send_bytes: the lock, and for_each starts.
server_send_bytes_begin(t) ==
    /\ ~aborted /\ srv.exists
    /\ pc[t] = "idle"
    /\ nfanout < MaxFanout
    /\ srv.lock \in {"free", t}
    /\ srv' = [srv EXCEPT !.lock = t]
    /\ it' = FirstNode
    /\ nfanout' = nfanout + 1
    /\ pc' = [pc EXCEPT ![t] = "fanout"]
    /\ UNCHANGED <<chan, ioq, io_cur, io_state, io_stopped, avars, wire, sent,
                   written, nsends, ncloses, aborted, accept_op, nconn,
                   rejected>>

\* One round of the for_each: instp->send_bytes(bytes, length).  The client
\* posts do_send to its own io_service.  A node that was removed and deleted
\* meanwhile is freed memory; a closed client fails the assertion.
server_send_bytes_step(t, crash) ==
    /\ ~aborted /\ srv.exists
    /\ pc[t] = "fanout" /\ it # 0
    /\ IF ~InList(it)
       THEN /\ aborted' = crash
            /\ it' = 0
            /\ UNCHANGED <<chan, sent>>
       ELSE IF ~chan[it].open
       THEN /\ ~crash
            /\ aborted' = TRUE
            /\ UNCHANGED <<chan, sent, it>>
       ELSE /\ ~crash
            /\ LockAvail(it, t)
            /\ chan' = [chan EXCEPT
                          ![it].tx_q = Append(@, MsgBuffer(nfanout, 1)),
                          ![it].posted = @ + 1]
            /\ sent' = [sent EXCEPT ![it] = @ \o Payload(nfanout, 1)]
            /\ it' = NextNode(it)
            /\ UNCHANGED aborted
    /\ UNCHANGED <<ioq, io_cur, io_state, io_stopped, pc, avars, wire, written,
                   nsends, ncloses, srv, accept_op, nconn, nfanout, rejected>>

server_send_bytes_end(t) ==
    /\ ~aborted /\ srv.exists
    /\ pc[t] = "fanout" /\ it = 0
    /\ srv' = [srv EXCEPT !.lock = "free"]
    /\ pc' = [pc EXCEPT ![t] = "idle"]
    /\ UNCHANGED <<chan, ioq, io_cur, io_state, io_stopped, avars, wire, sent,
                   written, nsends, ncloses, aborted, accept_op, nconn, it,
                   nfanout, rejected>>

\* MAVConnTCPServer::close() called by an application thread: the lock, the
\* is_open test, and for_each starts.
server_close_begin(t) ==
    /\ ~aborted /\ srv.exists
    /\ pc[t] = "idle"
    /\ ncloses < MaxCloses
    /\ srv.lock \in {"free", t}
    /\ ncloses' = ncloses + 1
    /\ IF ~srv.acceptor_open
       THEN UNCHANGED <<srv, it, pc>>
       ELSE /\ srv' = [srv EXCEPT !.lock = t]
            /\ it' = FirstNode
            /\ pc' = [pc EXCEPT ![t] = "closing"]
    /\ UNCHANGED <<chan, ioq, io_cur, io_state, io_stopped, avars, wire, sent,
                   written, nsends, aborted, accept_op, nconn, nfanout,
                   rejected>>

\* One round of the for_each of close(): disconnect_all_slots, close(),
\* delete.  A node that was removed and deleted meanwhile is freed memory,
\* and is deleted a second time.
server_close_step(t, crash) ==
    /\ ~aborted /\ srv.exists
    /\ pc[t] = "closing" /\ it # 0
    /\ IF ~InList(it)
       THEN /\ aborted' = crash
            /\ it' = 0
            /\ UNCHANGED <<chan, srv>>
       ELSE /\ ~crash
            /\ LockAvail(it, t)
            /\ chan' = [chan EXCEPT ![it] =
                           Deleted(close([@ EXCEPT !.subs = FALSE], 0))]
            /\ srv' = channel_freed(srv, 1)
            /\ it' = NextNode(it)
            /\ UNCHANGED aborted
    /\ UNCHANGED <<ioq, io_cur, io_state, io_stopped, pc, avars, wire, sent,
                   written, nsends, ncloses, accept_op, nconn, nfanout,
                   rejected>>

\* The rest of close(): clear the registry, stop the io_service, close the
\* acceptor, emit port_closed; then the join.
server_close_finish(t, reenter) ==
    /\ ~aborted /\ srv.exists
    /\ pc[t] = "closing" /\ it = 0
    /\ srv' = server_close(srv, reenter)
    /\ io_stopped' = TRUE
    /\ pc' = [pc EXCEPT ![t] = "joining"]
    /\ UNCHANGED <<chan, ioq, io_cur, io_state, avars, wire, sent, written,
                   nsends, ncloses, aborted, accept_op, nconn, it, nfanout,
                   rejected>>

server_close_join(t) ==
    /\ ~aborted /\ srv.exists
    /\ pc[t] = "joining"
    /\ io_state = "exited"
    /\ srv' = [srv EXCEPT !.thr = FALSE, !.lock = "free"]
    /\ pc' = [pc EXCEPT ![t] = "idle"]
    /\ UNCHANGED <<chan, ioq, io_cur, io_state, io_stopped, avars, wire, sent,
                   written, nsends, ncloses, aborted, accept_op, nconn, it,
                   nfanout, rejected>>

\* ----------------------------------------------------- the listening socket
\* A peer connects: the outstanding accept completes.
sock_accept ==
    /\ ~aborted
    /\ accept_op /\ srv.acceptor_open
    /\ nconn < MaxConn
    /\ nconn' = nconn + 1
    /\ accept_op' = FALSE
    /\ ioq' = Append(ioq, H("accept_end", nconn + 1, FALSE, 0, 0))
    /\ UNCHANGED <<chan, io_cur, io_state, io_stopped, pc, avars, wire, sent,
                   written, nsends, ncloses, aborted, srv, it, nfanout,
                   rejected>>

\* The outstanding accept fails (always, once the acceptor is closed).
sock_accept_error ==
    /\ ~aborted
    /\ accept_op
    /\ accept_op' = FALSE
    /\ ioq' = Append(ioq, H("accept_end", 0, TRUE, 0, 0))
    /\ UNCHANGED <<chan, io_cur, io_state, io_stopped, pc, avars, wire, sent,
                   written, nsends, ncloses, aborted, srv, nconn, it, nfanout,
                   rejected>>

\* --------------------------------------------------------------- the socket
Alive(cl, id) == \E i \in 1 .. Len(cl.tx_q) : cl.tx_q[i].id = id

\* The bytes a write of n bytes takes from memory.  The range of an
\* operation issued with a negative nbytes() lies outside the payload (the
\* write transfers what it finds there, or fails: sock_send_error); the
\* memory of a buffer deleted meanwhile holds its old bytes (intact) or not.
OpBytes(op, n, intact) ==
    IF op.len > 0 /\ intact
    THEN SubSeq(Payload(op.id, op.off + op.len), op.off + 1, op.off + n)
    ELSE GarbageBytes(n)

\* The socket takes n bytes of the oldest outstanding write and completes it.
sock_send(c, n, intact) ==
    /\ ~aborted
    /\ chan[c].open /\ chan[c].wr_ops # <<>>
    /\ LET op == Head(chan[c].wr_ops) IN
       /\ n <= (IF op.len > 0 THEN op.len ELSE MaxLen)
       /\ intact = FALSE => (op.len <= 0 \/ ~Alive(chan[c], op.id))
       /\ intact = TRUE => op.len > 0
       /\ wire' = [wire EXCEPT ![c] = Take(@ \o OpBytes(op, n, intact), MaxWire)]
       /\ written' = [written EXCEPT ![op.id] = Min(@ + n, PosCap)]
       /\ ioq' = Append(ioq, H("send_end", c, FALSE, n, op.id))
    /\ chan' = [chan EXCEPT ![c].wr_ops = Tail(@)]
    /\ UNCHANGED <<io_cur, io_state, io_stopped, pc, avars, sent, nsends,
                   ncloses, aborted, svars>>

\* The oldest outstanding write fails (always, once the socket is closed).
sock_send_error(c) ==
    /\ ~aborted
    /\ chan[c].wr_ops # <<>>
    /\ ioq' = Append(ioq, H("send_end", c, TRUE, 0, Head(chan[c].wr_ops).id))
    /\ chan' = [chan EXCEPT ![c].wr_ops = Tail(@)]
    /\ UNCHANGED <<io_cur, io_state, io_stopped, pc, avars, wire, sent, written,
                   nsends, ncloses, aborted, svars>>

\* The outstanding read completes with data of the peer.
sock_recv(c) ==
    /\ ~aborted
    /\ chan[c].open /\ chan[c].rd_op
    /\ ioq' = Append(ioq, H("recv_end", c, FALSE, 1, 0))
    /\ chan' = [chan EXCEPT ![c].rd_op = FALSE]
    /\ UNCHANGED <<io_cur, io_state, io_stopped, pc, avars, wire, sent, written,
                   nsends, ncloses, aborted, svars>>

\* The outstanding read fails: the peer closed, or the socket was closed.
sock_recv_error(c) ==
    /\ ~aborted
    /\ chan[c].rd_op
    /\ ioq' = Append(ioq, H("recv_end", c, TRUE, 0, 0))
    /\ chan' = [chan EXCEPT ![c].rd_op = FALSE]
    /\ UNCHANGED <<io_cur, io_state, io_stopped, pc, avars, wire, sent, written,
                   nsends, ncloses, aborted, svars>>

\* ------------------------------------------------------------ specification
InitServer ==
    /\ chan = [c \in Ids |-> NoClient]
    /\ ioq = <<H("do_accept", 0, FALSE, 0, 0)>>
    /\ io_cur = NoH
    /\ io_state = "running"
    /\ io_stopped = FALSE
    /\ pc = [t \in AppThreads |-> "idle"]
    /\ arg = [t \in AppThreads |-> MsgBuffer(0, 0)]
    /\ msg = NoCall
    /\ wire = [c \in Ids |-> <<>>]
    /\ sent = [c \in Ids |-> <<>>]
    /\ written = [k \in 1 .. MaxSends |-> 0]
    /\ nsends = 0
    /\ ncloses = 0
    /\ aborted = FALSE
    /\ srv = NewServer
    /\ accept_op = FALSE
    /\ nconn = 0
    /\ it = 0
    /\ nfanout = 0
    /\ rejected = 0

\* A standalone client channel.
NextClient ==
    \/ \E t \in AppThreads, len \in 1 .. MaxLen : send_bytes_begin(t, len)
    \/ \E t \in AppThreads : send_bytes_push(t)
    \/ \E t \in AppThreads, r \in 0 .. 1 : client_close(t, r)
    \/ \E t \in AppThreads : client_close_join(t)
    \/ io_dispatch
    \/ io_exit
    \/ run_do_recv
    \/ run_async_receive_end
    \/ run_do_send
    \/ run_async_send_end
    \/ \E n \in 1 .. MaxLen, intact \in BOOLEAN : sock_send(0, n, intact)
    \/ sock_send_error(0)
    \/ sock_recv(0)
    \/ sock_recv_error(0)

\* A server channel and the clients it accepts.  No thread runs the
\* io_service of an accepted client, so no action executes the do_send
\* handlers posted to it, and no write is ever issued on its socket.
NextServer ==
    \/ \E t \in ServerThreads : server_send_bytes_begin(t)
    \/ \E t \in ServerThreads, crash \in BOOLEAN : server_send_bytes_step(t, crash)
    \/ \E t \in ServerThreads : server_send_bytes_end(t)
    \/ \E t \in ServerThreads : server_close_begin(t)
    \/ \E t \in ServerThreads, crash \in BOOLEAN : server_close_step(t, crash)
    \/ \E t \in ServerThreads, r \in 0 .. 1 : server_close_finish(t, r)
    \/ \E t \in ServerThreads : server_close_join(t)
    \/ io_dispatch
    \/ io_exit
    \/ io_exit_no_work
    \/ run_do_accept
    \/ run_async_accept_end
    \/ run_do_recv
    \/ run_async_receive_end
    \/ run_port_closed
    \/ \E crash \in BOOLEAN : run_on_freed(crash)
    \/ sock_accept
    \/ sock_accept_error
    \/ \E c \in 1 .. MaxConn : sock_recv(c)
    \/ \E c \in 1 .. MaxConn : sock_recv_error(c)

SpecClient == InitClient /\ [][NextClient]_vars

SpecServer == InitServer /\ [][NextServer]_vars

\* Either kind of top-level channel.
Spec == (InitClient \/ InitServer) /\ [][NextClient \/ NextServer]_vars

\* A standalone client and one send_message call, for every message and
\* every pair of ids of the call.
InitMessage ==
    /\ chan = [c \in Ids |-> IF c = 0 THEN StandaloneClient ELSE NoClient]
    /\ ioq = <<H("do_recv", 0, FALSE, 0, 0)>>
    /\ io_cur = NoH
    /\ io_state = "running"
    /\ io_stopped = FALSE
    /\ pc = [t \in AppThreads |-> "idle"]
    /\ arg = [t \in AppThreads |-> MsgBuffer(0, 0)]
    /\ \E ms, mc, s, c \in SenderIds, q0, q1 \in 0 .. 1, len \in 0 .. MaxLen :
          msg = Call(Message(ms, mc, q0, Payload(9, len)), s, c, q1)
    /\ wire = [c \in Ids |-> <<>>]
    /\ sent = [c \in Ids |-> <<>>]
    /\ written = [k \in 1 .. MaxSends |-> 0]
    /\ nsends = 0
    /\ ncloses = 0
    /\ aborted = FALSE
    /\ srv = NoServer
    /\ accept_op = FALSE
    /\ nconn = 0
    /\ it = 0
    /\ nfanout = 0
    /\ rejected = 0

NextMessage ==
    \/ \E t \in AppThreads : send_message(t)
    \/ io_dispatch
    \/ run_do_recv
    \/ run_do_send

SpecMessage == InitMessage /\ [][NextMessage]_vars

\* The client stays open and its socket reports no error: the sends, the io
\* thread and the completions that transfer bytes.
NextOpen ==
    \/ \E t \in AppThreads, len \in 1 .. MaxLen : send_bytes_begin(t, len)
    \/ \E t \in AppThreads : send_bytes_push(t)
    \/ io_dispatch
    \/ run_do_recv
    \/ run_async_receive_end
    \/ run_do_send
    \/ run_async_send_end
    \/ \E n \in 1 .. MaxLen, intact \in BOOLEAN : sock_send(0, n, intact)
    \/ sock_recv(0)

\* The io thread runs whenever it has a handler, a started send_bytes
\* returns, and the socket keeps completing writes.
FairClient ==
    /\ InitClient /\ [][NextOpen]_vars
    /\ WF_vars(io_dispatch)
    /\ WF_vars(run_do_recv)
    /\ WF_vars(run_async_receive_end)
    /\ WF_vars(run_do_send)
    /\ WF_vars(run_async_send_end)
    /\ WF_vars(\E t \in AppThreads : send_bytes_push(t))
    /\ WF_vars(\E n \in 1 .. MaxLen, intact \in BOOLEAN : sock_send(0, n, intact))

\* ------------------------------------------------------------------ claims
\* C1: the byte stream handed to the socket of an open client channel is the
\* concatenation of the send_bytes payloads in call order: at every moment
\* the stream is a prefix of that concatenation (no byte lost, repeated or
\* reordered), also when a send_bytes is issued while a write is outstanding.
C1_StreamIsConcatenation == IsPrefix(wire[0], sent[0])

\* C3: on a standalone client that stays open, with a fair io thread and a
\* socket that completes writes without error, the send queue is eventually
\* empty for good (every enqueued buffer is written and removed).
C3_QueueDrains == <>[](chan[0].tx_q = <<>>)

\* C4: every Transmit Buffer in a client's send queue has cursor <= payload
\* length, in every reachable state.
C4_CursorWithinPayload ==
    \A c \in Ids : \A i \in 1 .. Len(chan[c].tx_q) :
        chan[c].tx_q[i].pos <= chan[c].tx_q[i].len

\* C5: a write completion advances the cursor of the buffer its write was
\* issued for, and a buffer is popped exactly when the bytes written from it
\* reach its length, with no write of it outstanding.
C5_PopWhenWritten ==
    [][\A c \in Ids :
        (/\ io_cur.h = "send_end" /\ io_cur.c = c /\ ~io_cur.err
         /\ io_cur' = NoH /\ chan[c].tx_q # <<>>)
        => LET front == Head(chan[c].tx_q)
               popped == Len(chan'[c].tx_q) < Len(chan[c].tx_q)
           IN /\ io_cur.id = front.id
              /\ popped <=> written[front.id] = front.len
              /\ popped => \A i \in 1 .. Len(chan[c].wr_ops) :
                               chan[c].wr_ops[i].id # front.id]_vars

\* The handler the io thread is executing needs the client's mutex and
\* another thread holds it.
IoBlocked ==
    /\ io_cur.h \in {"send_end", "do_send"} \/ (io_cur.h = "recv_end" /\ io_cur.err)
    /\ ~(io_cur.h = "do_send" /\ chan[io_cur.c].tx_in_progress)
    /\ ~LockAvail(io_cur.c, "io")

\* C7: close() called by an application thread, which joins the io thread
\* while holding the lock, never waits for an io thread that is itself
\* waiting for that lock (or calling close()): both calls return.
C7_CloseReturns == \A t \in AppThreads : pc[t] = "joining" => ~IoBlocked

\* The fan-out has returned, the io thread has no handler left to run and no
\* write is outstanding on any socket.
Quiescent ==
    /\ ~aborted
    /\ \A t \in AppThreads : pc[t] = "idle"
    /\ io_cur = NoH /\ ioq = <<>>
    /\ \A c \in Ids : chan[c].wr_ops = <<>>

\* C2: after a fan-out send_bytes(X) on the server, the socket of every
\* registered open client has exactly X written to it: once the drains that
\* the fan-out scheduled have had their turn (nothing is left to run), the
\* stream of every such client is what was enqueued for it.
C2_FanoutWritten ==
    Quiescent =>
        \A c \in Ids : (InList(c) /\ chan[c].open) => wire[c] = sent[c]

\* The close() of client c has closed the socket and is about to emit
\* port_closed.
Emitting(c) == io_cur.h = "port_closed" /\ io_cur.c = c

\* port_closed has been emitted once by every closed channel (unless its
\* close() is just about to emit it), and by no other.
EmittedOnce ==
    /\ \A c \in Ids :
         chan[c].emits = (IF chan[c].st # "none" /\ ~chan[c].open /\ ~Emitting(c)
                          THEN 1 ELSE 0)
    /\ srv.emits = (IF srv.exists /\ ~srv.acceptor_open THEN 1 ELSE 0)

\* A close() call by an application thread that finds the channel closed.
CloseOfClosed ==
    /\ ncloses' = ncloses + 1
    /\ IF srv.exists THEN ~srv.acceptor_open ELSE ~chan[0].open

\* C6: whatever the number of close() calls, from any thread or from a
\* port_closed subscriber, a channel emits port_closed exactly once, and a
\* close() after the first changes no state of the channel.
C6_PortClosedOnce ==
    [][/\ EmittedOnce'
       /\ CloseOfClosed =>
            UNCHANGED <<chan, srv, ioq, io_cur, io_state, io_stopped, pc,
                        accept_op, aborted>>]_vars

\* Two close() calls were made on a standalone client.
C6_Witness ==
    /\ ~srv.exists /\ ncloses = 2
    /\ chan[0].emits = 1 /\ ~chan[0].open
    /\ \A t \in AppThreads : pc[t] = "idle"

\* An accept is outstanding, or its completion handler or do_accept is
\* waiting for or having its turn on the io thread.
Accepting ==
    \/ accept_op
    \/ io_cur.h \in {"accept_end", "do_accept"}
    \/ \E i \in 1 .. Len(ioq) : ioq[i].h \in {"accept_end", "do_accept"}

\* C8: after a connection was rejected for lack of capacity the server goes
\* on accepting: while it is open, an accept is outstanding again.
C8_AcceptsAfterReject ==
    (rejected > 0 /\ srv.acceptor_open /\ ~aborted) => Accepting

\* The step of async_accept_end that rejects a connection.
RejectStep ==
    /\ io_cur.h = "accept_end" /\ ~io_cur.err /\ channes_available(srv) <= 0
    /\ io_cur' = NoH

\* C9: the reject of a connection for lack of capacity leaves the registry
\* and every client (socket, send queue, open state) as they are, emits no
\* port_closed and keeps the server open.
C9_RejectLeavesClients ==
    [][RejectStep => (chan' = chan /\ srv' = srv /\ ~aborted')]_vars

\* A connection was rejected while the registry is full of open clients.
C9_Witness ==
    /\ rejected > 0
    /\ Len(srv.client_list) = Capacity
    /\ \A i \in 1 .. Len(srv.client_list) : chan[srv.client_list[i]].open
    /\ srv.acceptor_open /\ ~aborted

\* A step of the io thread in async_receive_end of the registered client c
\* whose read failed: the call of close(), the emission of port_closed with
\* the deregistration, the rest of close().
SeveredStep(c) ==
    /\ io_cur.c = c /\ io_cur' # io_cur
    /\ \/ /\ io_cur.h = "recv_end" /\ io_cur.err
          /\ InList(c) /\ chan[c].st = "live" /\ chan[c].open
       \/ io_cur.h \in {"port_closed", "close_rest"}

\* C10: when the read of a registered client fails, the server removes that
\* client from the registry and nothing else: the other clients stay
\* registered and open, the acceptor stays open, the outstanding accept
\* stays outstanding, and the server keeps running.
C10_SeveredClientRemoved ==
    [][\A c \in Ids : SeveredStep(c) =>
        /\ srv'.client_list \in {srv.client_list, Remove(srv.client_list, c)}
        /\ io_cur' = NoH => \A i \in 1 .. Len(srv'.client_list) :
                                srv'.client_list[i] # c
        /\ \A d \in Ids \ {c} : chan'[d] = chan[d]
        /\ srv'.acceptor_open = srv.acceptor_open
        /\ accept_op' = accept_op
        /\ ~aborted']_vars

\* C11: send_message finalizes the message again (which takes the channel's
\* next sequence number) if and only if the message's (sysid, compid) is not
\* the (sysid, compid) of the call; the buffer then carries the ids of the
\* call.  When they are equal the enqueued bytes are those of the original
\* message, unchanged.
C11_RefinalizeIffIdsDiffer ==
    msg.done =>
        LET m == msg.message
            differ == <<m.sysid, m.compid>> # <<msg.sysid, msg.compid>>
        IN /\ (msg.tx_seq # msg.seq0) <=> differ
           /\ ~differ => msg.buf = Serialize(m)
           /\ differ =>
                /\ msg.buf = Serialize(Finalize(m, msg.sysid, msg.compid,
                                                msg.seq0, m.len))
                /\ msg.buf[4] = msg.sysid /\ msg.buf[5] = msg.compid
           /\ Head(chan[0].tx_q).len = Len(msg.buf)

\* A call whose sysid is the message's and whose compid is not has returned,
\* and the message's sequence number is not the channel's.
C11_Witness ==
    /\ msg.done
    /\ msg.message.sysid = msg.sysid /\ msg.message.compid # msg.compid
    /\ msg.message.seq # msg.seq0

\* C12: at most one write is outstanding on the socket of a client channel
\* at any time.
C12_OneWriteOutstanding == \A c \in Ids : Len(chan[c].wr_ops) <= 1

\* One round of the for_each of the fan-out send by thread t.
FanoutStep(t) ==
    /\ pc[t] = "fanout" /\ it # 0
    /\ io_cur' = io_cur /\ ioq' = ioq
    /\ it' # it \/ aborted'

\* C13: every round of a fan-out send forwards the call to the client it is
\* at and goes on: no client's state (closed by its own error path, queue
\* not drained) ends the process, and the call never finds a registered
\* client closed.
C13_FanoutNeverAborted ==
    [][\A t \in AppThreads : FanoutStep(t) =>
          /\ ~aborted'
          /\ InList(it) /\ chan[it].open
          /\ sent'[it] = sent[it] \o Payload(nfanout, 1)]_vars

\* A thread is inside the for_each of MAVConnTCPServer::send_bytes or of
\* MAVConnTCPServer::close, at a node of the list, holding the server's mutex.
Iterating(t) == srv.lock = t /\ pc[t] \in {"fanout", "closing"} /\ it # 0

\* C14: the registry is not mutated (insert on accept, remove on a client's
\* port_closed) while another thread iterates it in a fan-out send or in the
\* server's close(): while an application thread is inside its for_each, no
\* step of another thread changes client_list.
C14_RegistryUnderLock ==
    [][\A t \in AppThreads :
          Iterating(t) /\ pc'[t] = pc[t]
              => srv'.client_list = srv.client_list]_vars

\* MAVConnTCPServer::close() is executing on an application thread.
ServerClosing == \E t \in AppThreads : pc[t] \in {"closing", "joining"}

\* MAVConnTCPServer::close() has returned to the application thread that
\* called it: the acceptor is closed and the io thread joined.
ServerClosed ==
    /\ ~aborted /\ srv.exists
    /\ ~srv.acceptor_open /\ ~srv.thr
    /\ ~ServerClosing

\* The step that enters client_closed, the slot of a client's port_closed.
ClientClosedEntered == io_cur.h = "port_closed" /\ io_cur'.h = "close_rest"

\* C15: the server's close() closes and releases every registered client,
\* its port_closed subscription detached first, so client_closed is never
\* entered while the server's close() executes; and once close() has
\* returned the registry is empty and no client channel is open.
C15_ServerCloseReleasesAll ==
    /\ [][ClientClosedEntered => ~ServerClosing]_vars
    /\ [](ServerClosed =>
            /\ srv.client_list = <<>>
            /\ \A c \in Ids \ {0} : ~chan[c].open)

\* close() of the standalone client has completed: the socket is closed and
\* the caller has left close() (the io thread joined, the mutex released).
ClientClosed ==
    /\ ~aborted /\ ~srv.exists
    /\ ~chan[0].open /\ chan[0].lock = "free"
    /\ \A t \in AppThreads : pc[t] # "joining"

\* C16: close() discards every pending buffer without flushing; in every
\* state after close() has completed the send queue is empty, and no step
\* issues a new write on the socket, whatever send_bytes / send_message
\* calls and drain handlers are interleaved with the close().
C16_CloseDiscardsQueue ==
    /\ [](ClientClosed => chan[0].tx_q = <<>>)
    /\ [][ClientClosed =>
             Len(chan'[0].wr_ops) <= Len(chan[0].wr_ops)]_vars

\* The io thread executes async_receive_end / async_send_end of client c
\* with an error.
ErrorCompletion(c) ==
    /\ io_cur.c = c /\ io_cur.h \in {"recv_end", "send_end"} /\ io_cur.err
    /\ chan[c].st = "live"
    /\ io_cur' # io_cur

\* No receive and no write is issued on the socket of client c in the step.
NothingIssued(c) ==
    /\ chan'[c].rd_op => chan[c].rd_op
    /\ Len(chan'[c].wr_ops) <= Len(chan[c].wr_ops)

\* C17: a read or write completion that reports an error calls close() and
\* is not retried: the handler leaves the channel closed, port_closed is
\* emitted (by this close() or by the one that closed the channel before),
\* and from then on no receive and no write is issued on that channel.
C17_ErrorClosesChannel ==
    [][\A c \in Ids :
          /\ ErrorCompletion(c) =>
                /\ ~chan'[c].open
                /\ Emitting(c)' \/ chan'[c].emits >= 1
                /\ NothingIssued(c)
          /\ Emitting(c) /\ io_cur' # io_cur =>
                /\ ~chan'[c].open /\ chan'[c].emits = chan[c].emits + 1
                /\ NothingIssued(c)
          /\ c # 0 /\ chan[c].st # "none" /\ ~chan[c].open =>
                NothingIssued(c)]_vars

\* A server whose close() was never called and whose accepted client was
\* closed by the error handler of its read: port_closed emitted once, the
\* handler finished.
C17_Witness ==
    /\ ~aborted /\ srv.exists /\ srv.acceptor_open /\ ncloses = 0
    /\ io_cur = NoH
    /\ \E c \in Ids \ {0} :
          chan[c].st = "freed" /\ ~chan[c].open /\ chan[c].emits = 1

\* The io thread executes async_accept_end with an error.
AcceptError ==
    io_cur.h = "accept_end" /\ io_cur.err /\ io_cur' # io_cur

\* C18: close() called on the channel's own io thread returns: the error
\* handler of a standalone client's read or write, and the server's accept
\* error handler, get through close() (the join does not wait on, or fail
\* for, the thread that executes it) and the process goes on.
C18_CloseOnIoThreadReturns ==
    [][ErrorCompletion(0) \/ AcceptError => ~aborted']_vars

\* Client c was destroyed by client_closed, the slot of its port_closed:
\* the server's close(), the other place that deletes clients, was not
\* called.
ReleasedByClientClosed(c) ==
    c # 0 /\ chan[c].st = "freed" /\ ncloses = 0 /\ ~aborted

\* C19: no code runs against an accepted client after client_closed has
\* destroyed it: the io thread is never inside a member function of such a
\* client (the rest of its close(), a completion handler, a drain).
C19_NoCodeOnDestroyedClient ==
    \A c \in Ids :
        ReleasedByClientClosed(c) => ~(io_cur.h # "none" /\ io_cur.c = c)

\* One round of the for_each of MAVConnTCPServer::close(), which ends with
\* `delete instp` for the client at the iterator.
CloseRound(t) == pc[t] = "closing" /\ it # 0 /\ it' # it

\* C20: every accepted client is destroyed exactly once, whatever the
\* interleaving of the server's close() with a client's close-on-error:
\* each delete, in a round of close() and in client_closed, is that of a
\* client that has not been destroyed yet.
C20_DestroyedOnce ==
    [][/\ \A t \in AppThreads : CloseRound(t) => chan[it].st = "live"
       /\ ClientClosedEntered => chan[io_cur.c].st = "live"]_vars

====
